---- MODULE Spec2Model ----
(***************************************************************************)
(* A model of the two browser demonstrations of the vector-space           *)
(* repository:                                                             *)
(*   - the text-to-vector grid demo  (src/unnamed/part_000), with its     *)
(*     per-dimension hash vectorizer and its progress timers;              *)
(*   - the 3D vector explorer        (src/app/page.tsx), with its store,   *)
(*     selection, metric and similarity effect.                            *)
(*                                                                         *)
(* Strings are sequences of UTF-16 code units (numbers).  A JavaScript     *)
(* number that may leave the signed 32-bit range is kept as a pair         *)
(* <<hi, lo>> standing for hi * 65536 + lo with lo in 0..65535, because    *)
(* the model checker's own integers are 32 bits wide.                      *)
(***************************************************************************)
EXTENDS Integers, Sequences, FiniteSets, Bags, TLC

VARIABLES
    \* ---- the vectorizer call under execution (part_000 lines 19-38)
    callText,        \* the argument text
    callDims,        \* the argument dims
    pc,              \* position inside textToVector
    i,               \* outer loop index
    j,               \* inner loop index
    hash,            \* the local `hash`, a wide number
    result,          \* the local `result`
    firstResult,     \* <<r>> once the call is being repeated, r being what the
                     \* first call returned; <<>> before
    \* ---- the call of the explorer's textToVector (page.tsx lines 60-76)
    exCallText,      \* the argument text
    exCallPc,        \* "call" before the call, "done" after it
    exCallResult,    \* the value returned
    exCallFirst,     \* as firstResult
    \* ---- the call of calculateDistance (page.tsx lines 79-102)
    distVec1,        \* the argument vec1
    distVec2,        \* the argument vec2
    distValue,       \* the value the metric selector delivers
    distPc,          \* "select", "call", "done"
    distScore,       \* the value returned
    \* ---- the grid demo component (part_000 lines 12-16) and its timers
    inputText,
    vector,
    showAnimation,
    dimensions,
    progressWidth,
    intervals,       \* the running setInterval timers: a bag of the times
                     \* left until their next firing, in units of 100 ms
    timeouts,        \* the pending setTimeout timers: for each, the time left
                     \* and the inputText and dimensions its closure captured
    \* ---- the 3D explorer component (page.tsx lines 49-57)
    vectors,
    selectedVector,
    exInputText,     \* the explorer's inputText
    distanceMetric,
    similarities,
    pointsRef,       \* the keys of pointsRef.current
    effectPending,   \* a render has changed a dependency of the similarity
                     \* effect, which has not run yet
    clock            \* Date.now()

vecVars  == <<callText, callDims, pc, i, j, hash, result, firstResult,
              exCallText, exCallPc, exCallResult, exCallFirst>>
distVars == <<distVec1, distVec2, distValue, distPc, distScore>>
gridVars == <<inputText, vector, showAnimation, dimensions, progressWidth,
              intervals, timeouts>>
exVars   == <<vectors, selectedVector, exInputText, distanceMetric, similarities,
              pointsRef, effectPending, clock>>
vars     == <<vecVars, distVars, gridVars, exVars>>

(***************************************************************************)
(* Bounds of the model.                                                    *)
(***************************************************************************)
MaxTextLen == 6      \* longest argument text of a vectorizer call
MaxDims    == 2      \* largest dims of a vectorizer call

(***************************************************************************)
(* Characters and strings.                                                 *)
(***************************************************************************)
\* space, "a", "z"
Alphabet == {32, 97, 122}

\* The code units String.prototype.trim removes.
IsWhitespace(c) ==
    c \in {9, 10, 11, 12, 13, 32, 160, 5760, 8232, 8233, 8239, 8287, 12288, 65279}
        \cup (8192..8202)

\* !text.trim(): the trimmed text is empty exactly when every unit is whitespace.
IsBlank(text) == \A k \in 1..Len(text) : IsWhitespace(text[k])

RECURSIVE Strings(_)
Strings(n) ==
    IF n = 0 THEN {<<>>}
    ELSE LET shorter == Strings(n - 1)
         IN  shorter \cup {Append(s, c) : s \in {t \in shorter : Len(t) = n - 1},
                                          c \in Alphabet}

\* Number.prototype.toString for a non-negative integer: its decimal digits.
RECURSIVE toString(_)
toString(n) ==
    IF n < 10 THEN <<48 + n>>
    ELSE Append(toString(n \div 10), 48 + (n % 10))

(***************************************************************************)
(* Wide numbers and the 32-bit operators of the hash.                      *)
(***************************************************************************)
Wide(n) == <<n \div 65536, n % 65536>>

WNorm(hi, lo) == <<hi + (lo \div 65536), lo % 65536>>

WAdd(a, b) == WNorm(a[1] + b[1], a[2] + b[2])

WSub(a, b) == WNorm(a[1] - b[1], a[2] - b[2])

InInt32(w) == w[1] \in -32768..32767 /\ w[2] \in 0..65535

\* ToInt32: reduction modulo 2^32 into [-2^31, 2^31 - 1].
ToInt32(w) ==
    LET h16 == w[1] % 65536
    IN  <<IF h16 >= 32768 THEN h16 - 65536 ELSE h16, w[2]>>

\* hash << 5: the left operand taken as a 32-bit integer, shifted, and the
\* result taken as a 32-bit integer again.
ShiftLeft5(w) ==
    LET x == ToInt32(w)
    IN  ToInt32(WNorm(x[1] * 32, x[2] * 32))

\* The number a wide value in the signed 32-bit range stands for.
Num(w) == w[1] * 65536 + w[2]

\* a % n as JavaScript computes it: the remainder takes the dividend's sign.
JsRem(a, n) ==
    LET m == a % n
    IN  IF a < 0 /\ m # 0 THEN m - n ELSE m

(***************************************************************************)
(* The per-dimension hash vectorizer (part_000 lines 19-38).              *)
(* A component is kept in thousandths: (hash % 2000) / 1000 - 1 is         *)
(* ((hash % 2000) - 1000) / 1000.                                          *)
(***************************************************************************)
\* the step without line 31
HashNoWrap(h, char) ==
    CHOOSE next \in {WAdd(WSub(ShiftLeft5(v), v), Wide(char)) : v \in {h}} : TRUE

\* lines 30-31: hash = (hash << 5) - hash + char; hash = hash & hash.
\* v is the value of hash before the step, taken once.
HashStep(h, char) ==
    CHOOSE next \in {ToInt32(WAdd(WSub(ShiftLeft5(v), v), Wide(char))) : v \in {h}} : TRUE

\* line 34: (hash % 2000) / 1000 - 1, in thousandths
Component(h) == JsRem(Num(h), 2000) - 1000

\* line 27: const str = text + i.toString()
SeedString(text, idx) == text \o toString(idx)

RECURSIVE HashFrom(_, _, _)
HashFrom(h, str, k) ==
    IF k > Len(str) THEN h
    ELSE HashFrom(HashStep(h, str[k]), str, k + 1)

\* lines 26-32 for one dimension
HashOf(str) == HashFrom(Wide(0), str, 1)

\* lines 19-38 as a function of its arguments
textToVector(text, dims) ==
    IF IsBlank(text) THEN <<>>
    ELSE [idx \in 1..dims |-> Component(HashOf(SeedString(text, idx - 1)))]

(***************************************************************************)
(* The vectorizer executed step by step.                                   *)
(***************************************************************************)
exCallVars == <<exCallText, exCallPc, exCallResult, exCallFirst>>

VecInit ==
    /\ callText \in Strings(MaxTextLen)
    /\ callDims \in 1..MaxDims
    /\ pc = "check"
    /\ i = 0
    /\ j = 0
    /\ hash = Wide(0)
    /\ result = <<>>
    /\ firstResult = <<>>

\* line 20: if (!text.trim()) return []
VecReturnEmpty ==
    /\ pc = "check"
    /\ IsBlank(callText)
    /\ pc' = "done"
    /\ result' = <<>>
    /\ UNCHANGED <<callText, callDims, i, j, hash, firstResult, exCallVars>>
    /\ UNCHANGED <<distVars, gridVars, exVars>>

\* the call with `result` declared outside the function: line 23 does not
\* run at the call
VecBeginKeepResult ==
    /\ pc = "check"
    /\ ~IsBlank(callText)
    /\ pc' = IF 0 < callDims THEN "char" ELSE "done"
    /\ i' = 0
    /\ j' = 0
    /\ hash' = Wide(0)
    /\ UNCHANGED <<callText, callDims, result, firstResult, exCallVars>>
    /\ UNCHANGED <<distVars, gridVars, exVars>>

\* lines 23-26: const result = []; i = 0; let hash = 0
VecBegin ==
    /\ pc = "check"
    /\ ~IsBlank(callText)
    /\ pc' = IF 0 < callDims THEN "char" ELSE "done"
    /\ i' = 0
    /\ j' = 0
    /\ hash' = Wide(0)
    /\ result' = <<>>
    /\ UNCHANGED <<callText, callDims, firstResult, exCallVars>>
    /\ UNCHANGED <<distVars, gridVars, exVars>>

\* lines 28-32: one iteration of the inner loop
VecChar ==
    /\ pc = "char"
    /\ j < Len(SeedString(callText, i))
    /\ hash' = HashStep(hash, SeedString(callText, i)[j + 1])
    /\ j' = j + 1
    /\ UNCHANGED <<callText, callDims, pc, i, result, firstResult, exCallVars>>
    /\ UNCHANGED <<distVars, gridVars, exVars>>

\* the loop with the condition i <= dims
VecPushOffByOne ==
    /\ pc = "char"
    /\ j = Len(SeedString(callText, i))
    /\ result' = Append(result, Component(hash))
    /\ i' = i + 1
    /\ j' = 0
    /\ hash' = Wide(0)
    /\ pc' = IF i + 1 <= callDims THEN "char" ELSE "done"
    /\ UNCHANGED <<callText, callDims, firstResult, exCallVars>>
    /\ UNCHANGED <<distVars, gridVars, exVars>>

\* lines 34, 25, 26: push the component, i++, and the next hash = 0
VecPush ==
    /\ pc = "char"
    /\ j = Len(SeedString(callText, i))
    /\ result' = Append(result, Component(hash))
    /\ i' = i + 1
    /\ j' = 0
    /\ hash' = Wide(0)
    /\ pc' = IF i + 1 < callDims THEN "char" ELSE "done"
    /\ UNCHANGED <<callText, callDims, firstResult, exCallVars>>
    /\ UNCHANGED <<distVars, gridVars, exVars>>

\* lines 56-59, a second time: the timeout callback has set the vector to
\* what the first call returned (line 58), and a later conversion calls
\* textToVector with the same text and dims.  The locals of the first call
\* are left as they were: the function's own lines 23-26 set them.
VecCallAgain ==
    /\ pc = "done"
    /\ firstResult = <<>>
    /\ firstResult' = <<result>>
    /\ vector' = result
    /\ pc' = "check"
    /\ UNCHANGED <<callText, callDims, i, j, hash, result, exCallVars>>
    /\ UNCHANGED <<inputText, showAnimation, dimensions, progressWidth,
                   intervals, timeouts>>
    /\ UNCHANGED <<distVars, exVars>>

VecNext ==
    \/ VecReturnEmpty
    \/ VecBegin
    \/ VecChar
    \/ VecPush
    \/ VecCallAgain

\* No call of the per-dimension hash vectorizer is being traced.
HashIdle ==
    /\ callText = <<>>
    /\ callDims = 1
    /\ pc = "idle"
    /\ i = 0
    /\ j = 0
    /\ hash = Wide(0)
    /\ result = <<>>
    /\ firstResult = <<>>

\* No call of the explorer's textToVector is being traced.
ExCallIdle ==
    /\ exCallText = <<>>
    /\ exCallPc = "idle"
    /\ exCallResult = <<>>
    /\ exCallFirst = <<>>

\* No vectorizer call is being traced.
VecIdle == HashIdle /\ ExCallIdle

(***************************************************************************)
(* The grid demo component (part_000 lines 11-67) and its timers.          *)
(* Time passes in units of 100 ms, the period of the progress interval;    *)
(* a timer fires when the time left to it is 0, and time does not pass     *)
(* while a timer is due.  Timers due in the same unit fire in any order.   *)
(***************************************************************************)
MaxTimers == 2       \* timers of a kind (intervals, timeouts) running at once

INTERVAL_UNITS == 1  \* setInterval(..., 100)
TIMEOUT_UNITS == 22  \* setTimeout(..., 2200)
INITIAL_DIMENSIONS == 8

\* "", " ", "a z"
GridTexts == {<<>>, <<32>>, <<97, 32, 122>>}
GridDims  == {1}

\* lines 12-16
GridInit ==
    /\ inputText = <<>>
    /\ vector = <<>>
    /\ showAnimation = FALSE
    /\ dimensions = INITIAL_DIMENSIONS
    /\ progressWidth = 0
    /\ intervals = EmptyBag
    /\ timeouts = <<>>

\* line 87: onChange of the textarea
SetInputText(t) ==
    /\ inputText' = t
    /\ UNCHANGED <<vector, showAnimation, dimensions, progressWidth,
                   intervals, timeouts>>
    /\ UNCHANGED <<distVars, vecVars, exVars>>

\* line 104: setDimensions(Math.max(1, parseInt(e.target.value) || 1))
SetDimensions(d) ==
    /\ dimensions' = IF d > 1 THEN d ELSE 1
    /\ UNCHANGED <<inputText, vector, showAnimation, progressWidth,
                   intervals, timeouts>>
    /\ UNCHANGED <<distVars, vecVars, exVars>>

\* lines 40-60
handleConvert ==
    /\ Len(timeouts) < MaxTimers
    /\ BagCardinality(intervals) < MaxTimers
    /\ IF IsBlank(inputText)
       THEN UNCHANGED gridVars
       ELSE /\ showAnimation' = TRUE
            /\ progressWidth' = 0
            /\ intervals' = intervals (+) SetToBag({INTERVAL_UNITS})
            /\ timeouts' = Append(timeouts,
                   [left |-> TIMEOUT_UNITS, text |-> inputText, dims |-> dimensions])
            /\ UNCHANGED <<inputText, vector, dimensions>>
    /\ UNCHANGED <<distVars, vecVars, exVars>>

\* lines 62-67
reset ==
    /\ inputText' = <<>>
    /\ vector' = <<>>
    /\ showAnimation' = FALSE
    /\ progressWidth' = 0
    /\ UNCHANGED <<dimensions, intervals, timeouts>>
    /\ UNCHANGED <<distVars, vecVars, exVars>>

RemoveAt(s, k) == [n \in 1..(Len(s) - 1) |-> IF n < k THEN s[n] ELSE s[n + 1]]

\* the callback without the clearInterval of line 49
IntervalFireNeverClears ==
    /\ BagIn(0, intervals)
    /\ intervals' = (intervals (-) SetToBag({0})) (+) SetToBag({INTERVAL_UNITS})
    /\ progressWidth' = IF progressWidth >= 100 THEN 100 ELSE progressWidth + 10
    /\ UNCHANGED <<inputText, vector, showAnimation, dimensions, timeouts>>
    /\ UNCHANGED <<distVars, vecVars, exVars>>

\* lines 46-54: the interval callback and its state updater
IntervalFire ==
    /\ BagIn(0, intervals)
    /\ IF progressWidth >= 100
       THEN /\ intervals' = intervals (-) SetToBag({0})
            /\ progressWidth' = 100
       ELSE /\ intervals' = (intervals (-) SetToBag({0})) (+) SetToBag({INTERVAL_UNITS})
            /\ progressWidth' = progressWidth + 10
    /\ UNCHANGED <<inputText, vector, showAnimation, dimensions, timeouts>>
    /\ UNCHANGED <<distVars, vecVars, exVars>>

\* The values `dimensions` can have.
GridDimensions == {INITIAL_DIMENSIONS} \cup {IF d > 1 THEN d ELSE 1 : d \in GridDims}

\* textToVector on the arguments a conversion can have, computed once
ConvertedVectors ==
    [text \in GridTexts, dims \in GridDimensions |-> textToVector(text, dims)]

\* lines 56-59: the timeout callback
TimeoutFire(k) ==
    /\ timeouts[k].left = 0
    /\ vector' = ConvertedVectors[timeouts[k].text, timeouts[k].dims]
    /\ timeouts' = RemoveAt(timeouts, k)
    /\ UNCHANGED <<inputText, showAnimation, dimensions, progressWidth, intervals>>
    /\ UNCHANGED <<distVars, vecVars, exVars>>

\* 100 ms pass: no timer is due, and a timer is running
Tick ==
    /\ BagCardinality(intervals) + Len(timeouts) > 0
    /\ ~BagIn(0, intervals)
    /\ \A k \in 1..Len(timeouts) : timeouts[k].left > 0
    /\ intervals' = BagOfAll(LAMBDA left : left - 1, intervals)
    /\ timeouts' = [k \in 1..Len(timeouts) |->
                      [timeouts[k] EXCEPT !.left = timeouts[k].left - 1]]
    /\ UNCHANGED <<inputText, vector, showAnimation, dimensions, progressWidth>>
    /\ UNCHANGED <<distVars, vecVars, exVars>>

GridNext ==
    \/ \E t \in GridTexts : SetInputText(t)
    \/ \E d \in GridDims : SetDimensions(d)
    \/ handleConvert
    \/ reset
    \/ IntervalFire
    \/ \E k \in 1..Len(timeouts) : TimeoutFire(k)
    \/ Tick

(***************************************************************************)
(* The 3D explorer (src/app/page.tsx): its pure functions.                 *)
(* A floating-point value is kept in thousandths, as an integer; sin and   *)
(* cos are tabulated to that precision, a quotient is truncated and a      *)
(* square root is rounded down.                                            *)
(***************************************************************************)
\* round(1000 * sin(c * 0.1)) for the code units c = 0..127
SinTable ==
    <<0, 100, 199, 296, 389, 479, 565, 644, 717, 783, 841, 891, 932, 964, 985, 997,
      1000, 992, 974, 946, 909, 863, 808, 746, 675, 598, 516, 427, 335, 239, 141, 42,
      -58, -158, -256, -351, -443, -530, -612, -688, -757, -818, -872, -916, -952, -978, -994, -1000,
      -996, -982, -959, -926, -883, -832, -773, -706, -631, -551, -465, -374, -279, -182, -83, 17,
      117, 215, 312, 405, 494, 578, 657, 729, 794, 850, 899, 938, 968, 988, 999, 999,
      989, 970, 941, 902, 855, 798, 734, 663, 585, 501, 412, 319, 223, 124, 25, -75,
      -174, -272, -366, -458, -544, -625, -700, -768, -828, -880, -923, -957, -981, -995, -1000, -995,
      -979, -954, -919, -875, -823, -762, -694, -618, -537, -450, -358, -263, -166, -66, 34, 133>>

\* round(1000 * cos(w * 0.2)) for the word indices w = 0..7
CosTable ==
    <<1000, 980, 921, 825, 697, 540, 362, 170>>

\* lines 32-41
SAMPLE_TEXTS ==
    <<
      \* "The cat sits on the mat"
      <<84, 104, 101, 32, 99, 97, 116, 32, 115, 105, 116, 115, 32, 111, 110, 32, 116, 104, 101, 32, 109, 97, 116>>,
      \* "A feline rests on the carpet"
      <<65, 32, 102, 101, 108, 105, 110, 101, 32, 114, 101, 115, 116, 115, 32, 111, 110, 32, 116, 104, 101, 32, 99, 97, 114, 112, 101, 116>>,
      \* "Dogs love to play fetch"
      <<68, 111, 103, 115, 32, 108, 111, 118, 101, 32, 116, 111, 32, 112, 108, 97, 121, 32, 102, 101, 116, 99, 104>>,
      \* "Puppies enjoy running around"
      <<80, 117, 112, 112, 105, 101, 115, 32, 101, 110, 106, 111, 121, 32, 114, 117, 110, 110, 105, 110, 103, 32, 97, 114, 111, 117, 110, 100>>,
      \* "Machine learning is fascinating"
      <<77, 97, 99, 104, 105, 110, 101, 32, 108, 101, 97, 114, 110, 105, 110, 103, 32, 105, 115, 32, 102, 97, 115, 99, 105, 110, 97, 116, 105, 110, 103>>,
      \* "AI algorithms process data"
      <<65, 73, 32, 97, 108, 103, 111, 114, 105, 116, 104, 109, 115, 32, 112, 114, 111, 99, 101, 115, 115, 32, 100, 97, 116, 97>>,
      \* "The ocean waves crash"
      <<84, 104, 101, 32, 111, 99, 101, 97, 110, 32, 119, 97, 118, 101, 115, 32, 99, 114, 97, 115, 104>>,
      \* "Sea water sparkles blue"
      <<83, 101, 97, 32, 119, 97, 116, 101, 114, 32, 115, 112, 97, 114, 107, 108, 101, 115, 32, 98, 108, 117, 101>>
    >>

\* lines 335 and 351
colors ==
    <<"#3b82f6", "#ef4444", "#10b981", "#f59e0b",
      "#8b5cf6", "#ec4899", "#06b6d4", "#84cc16">>

VECTOR_LENGTH == 128  \* new Array(128)

Abs(x) == IF x < 0 THEN -x ELSE x

Max(a, b) == IF a >= b THEN a ELSE b

\* a / b for b > 0, truncated towards zero
Quot(a, b) == IF a >= 0 THEN a \div b ELSE -((-a) \div b)

\* Math.sqrt, rounded down
RECURSIVE SqrtFrom(_, _, _)
SqrtFrom(n, lo, hi) ==
    IF lo >= hi THEN lo
    ELSE LET mid == (lo + hi + 1) \div 2
         IN  IF mid * mid <= n THEN SqrtFrom(n, mid, hi)
             ELSE SqrtFrom(n, lo, mid - 1)

Sqrt(n) == SqrtFrom(n, 0, 46340)

\* Array.prototype.reduce((sum, x) => sum + x, 0) over f[from], ..., f[to];
\* the integer sum does not depend on the order of the additions.
RECURSIVE SumOf(_, _, _)
SumOf(f, from, to) ==
    IF from > to THEN 0
    ELSE IF from = to THEN f[from]
    ELSE LET mid == (from + to) \div 2
         IN  SumOf(f, from, mid) + SumOf(f, mid + 1, to)

SumTo(f, n) == SumOf(f, 1, n)

\* String.prototype.toLowerCase on one code unit
LowerChar(c) == IF c \in 65..90 THEN c + 32 ELSE c

toLowerCase(text) == [k \in 1..Len(text) |-> LowerChar(text[k])]

\* String.prototype.split(/\s+/): the pieces between the runs of whitespace;
\* a leading or trailing run leaves an empty piece at that end.
RECURSIVE SplitFrom(_, _, _, _)
SplitFrom(text, k, words, word) ==
    IF k > Len(text) THEN Append(words, word)
    ELSE IF IsWhitespace(text[k])
         THEN IF k > 1 /\ IsWhitespace(text[k - 1])
              THEN SplitFrom(text, k + 1, words, word)
              ELSE SplitFrom(text, k + 1, Append(words, word), <<>>)
         ELSE SplitFrom(text, k + 1, words, Append(word, text[k]))

split(text) == SplitFrom(text, 1, <<>>, <<>>)

\* line 68: (charCode + wordIndex * 7 + i * 3) % vector.length, as a 1-based index
TargetIndex(charCode, wordIndex, ci) ==
    ((charCode + wordIndex * 7 + ci * 3) % VECTOR_LENGTH) + 1

\* line 69: Math.sin(charCode * 0.1) * Math.cos(wordIndex * 0.2)
Contribution(charCode, wordIndex) ==
    Quot(SinTable[charCode + 1] * CosTable[wordIndex + 1], 1000)

\* lines 66-70: the characters of one word, from character ci (0-based) on
RECURSIVE AddWord(_, _, _, _)
AddWord(vec, word, wordIndex, ci) ==
    IF ci >= Len(word) THEN vec
    ELSE LET charCode == word[ci + 1]
             index == TargetIndex(charCode, wordIndex, ci)
         IN  AddWord([vec EXCEPT ![index] = @ + Contribution(charCode, wordIndex)],
                     word, wordIndex, ci + 1)

\* lines 65-71: words.forEach, from word wi (1-based) on
RECURSIVE AddWords(_, _, _)
AddWords(vec, words, wi) ==
    IF wi > Len(words) THEN vec
    ELSE AddWords(AddWord(vec, words[wi], wi - 1, 0), words, wi + 1)

\* lines 74-75: the L2 normalisation; the zero vector is returned as it is
Normalize(vec) ==
    LET magnitude == Sqrt(SumTo([k \in 1..Len(vec) |-> vec[k] * vec[k]], Len(vec)))
    IN  IF magnitude > 0
        THEN [k \in 1..Len(vec) |-> Quot(vec[k] * 1000, magnitude)]
        ELSE vec

\* lines 60-76: the explorer's textToVector
textToVector3D(text) ==
    Normalize(AddWords([k \in 1..VECTOR_LENGTH |-> 0], split(toLowerCase(text)), 1))

\* lines 331-333 and 355-357: slices [0,42), [43,85), [86,128), summed, times 8
Position(vec) ==
    <<SumOf(vec, 1, 42) * 8, SumOf(vec, 44, 85) * 8, SumOf(vec, 87, 128) * 8>>

Metrics == {"cosine", "euclidean", "manhattan", "dot"}

DotProduct(vec1, vec2) ==
    Quot(SumTo([k \in 1..Len(vec1) |-> vec1[k] * vec2[k]], Len(vec1)), 1000)

\* the function without the Math.max(0, ...) of lines 83, 87, 91 and 94
calculateDistanceUnclamped(vec1, vec2, metric) ==
    CASE metric = "cosine" ->
            DotProduct(vec1, vec2)
      [] metric = "euclidean" ->
            LET euclidean == Sqrt(SumTo([k \in 1..Len(vec1) |->
                                 (vec1[k] - vec2[k]) * (vec1[k] - vec2[k])], Len(vec1)))
            IN  1000 - Quot(euclidean, 2)
      [] metric = "manhattan" ->
            LET manhattan == SumTo([k \in 1..Len(vec1) |->
                                 Abs(vec1[k] - vec2[k])], Len(vec1))
            IN  1000 - Quot(manhattan, Len(vec1))
      [] metric = "dot" ->
            DotProduct(vec1, vec2)
      [] OTHER -> 0

\* lines 79-102
calculateDistance(vec1, vec2, metric) ==
    CASE metric = "cosine" ->
            Max(0, DotProduct(vec1, vec2))
      [] metric = "euclidean" ->
            LET euclidean == Sqrt(SumTo([k \in 1..Len(vec1) |->
                                 (vec1[k] - vec2[k]) * (vec1[k] - vec2[k])], Len(vec1)))
            IN  Max(0, 1000 - Quot(euclidean, 2))
      [] metric = "manhattan" ->
            LET manhattan == SumTo([k \in 1..Len(vec1) |->
                                 Abs(vec1[k] - vec2[k])], Len(vec1))
            IN  Max(0, 1000 - Quot(manhattan, Len(vec1)))
      [] metric = "dot" ->
            Max(0, DotProduct(vec1, vec2))
      [] OTHER -> 0

(***************************************************************************)
(* The 3D explorer component.  A handler runs to completion and its state  *)
(* updates are rendered together; the effects of that render run before    *)
(* the next handler does.                                                  *)
(***************************************************************************)
MaxClock == 1        \* the last value of Date.now(), the first being 0
MaxAdded == 2        \* records made by addVector that the store holds at once

NULL == "null"

ExTexts == {<<>>, <<32>>, <<97, 32, 122>>}  \* "", " ", "a z"

\* line 360: `sample-${index}`
SampleId(index) == "sample-" \o ToString(index)

SampleIds == {SampleId(index) : index \in 0..(Len(SAMPLE_TEXTS) - 1)}

\* lines 337-343 and 359-365: a TextVector
TextVector(id, text, colorIndex) ==
    LET vec == textToVector3D(text)
    IN  [id |-> id, text |-> text, vector |-> vec, position |-> Position(vec),
         color |-> colors[(colorIndex % Len(colors)) + 1]]

\* lines 350-366: newVectors
SampleVectors ==
    [k \in 1..Len(SAMPLE_TEXTS) |-> TextVector(SampleId(k - 1), SAMPLE_TEXTS[k], k - 1)]

Ids(store) == {store[k].id : k \in 1..Len(store)}

\* Array.prototype.find(v => v.id === id), for an id the store holds
Find(store, id) ==
    store[CHOOSE k \in 1..Len(store) :
             /\ store[k].id = id
             /\ \A n \in 1..(k - 1) : store[n].id # id]

\* lines 53-57
ExInit ==
    /\ vectors = <<>>
    /\ selectedVector = NULL
    /\ exInputText = <<>>
    /\ distanceMetric = "cosine"
    /\ similarities = <<>>
    /\ pointsRef = {}
    /\ effectPending = TRUE
    /\ clock = 0

\* line 433: onChange of the input
ExSetInputText(t) ==
    /\ ~effectPending
    /\ exInputText' = t
    /\ UNCHANGED <<vectors, selectedVector, distanceMetric, similarities,
                   pointsRef, effectPending, clock>>
    /\ UNCHANGED <<distVars, vecVars, gridVars>>

\* Date.now() moves on
ClockTick ==
    /\ clock < MaxClock
    /\ clock' = clock + 1
    /\ UNCHANGED <<vectors, selectedVector, exInputText, distanceMetric,
                   similarities, pointsRef, effectPending>>
    /\ UNCHANGED <<distVars, vecVars, gridVars>>

\* the handler without line 326
addVectorNoGuard ==
    /\ ~effectPending
    /\ Cardinality({k \in 1..Len(vectors) : vectors[k].id \notin SampleIds}) < MaxAdded
    /\ vectors' = Append(vectors,
                         TextVector(ToString(clock), exInputText, Len(vectors)))
    /\ exInputText' = <<>>
    /\ effectPending' = TRUE
    /\ UNCHANGED <<selectedVector, distanceMetric, similarities, pointsRef, clock>>
    /\ UNCHANGED <<distVars, vecVars, gridVars>>

\* the handler with colors[(vectors.length + 1) % colors.length]
addVectorNextColor ==
    /\ ~effectPending
    /\ Cardinality({k \in 1..Len(vectors) : vectors[k].id \notin SampleIds}) < MaxAdded
    /\ IF IsBlank(exInputText)
       THEN UNCHANGED exVars
       ELSE /\ vectors' = Append(vectors,
                               TextVector(ToString(clock), exInputText, Len(vectors) + 1))
            /\ exInputText' = <<>>
            /\ effectPending' = TRUE
            /\ UNCHANGED <<selectedVector, distanceMetric, similarities,
                           pointsRef, clock>>
    /\ UNCHANGED <<distVars, vecVars, gridVars>>

\* lines 325-347
addVector ==
    /\ ~effectPending
    /\ Cardinality({k \in 1..Len(vectors) : vectors[k].id \notin SampleIds}) < MaxAdded
    /\ IF IsBlank(exInputText)
       THEN UNCHANGED exVars
       ELSE /\ vectors' = Append(vectors,
                               TextVector(ToString(clock), exInputText, Len(vectors)))
            /\ exInputText' = <<>>
            /\ effectPending' = TRUE
            /\ UNCHANGED <<selectedVector, distanceMetric, similarities,
                           pointsRef, clock>>
    /\ UNCHANGED <<distVars, vecVars, gridVars>>

\* the load appending to the store: setVectors((prev) => [...prev, ...newVectors])
addSampleTextsAppend ==
    /\ ~effectPending
    /\ vectors' = vectors \o SampleVectors
    /\ selectedVector' = NULL
    /\ effectPending' = TRUE
    /\ UNCHANGED <<exInputText, distanceMetric, similarities, pointsRef, clock>>
    /\ UNCHANGED <<distVars, vecVars, gridVars>>

\* the load without line 369
addSampleTextsKeepSelection ==
    /\ ~effectPending
    /\ vectors' = SampleVectors
    /\ effectPending' = TRUE
    /\ UNCHANGED <<selectedVector, exInputText, distanceMetric, similarities,
                   pointsRef, clock>>
    /\ UNCHANGED <<distVars, vecVars, gridVars>>

\* lines 349-370
addSampleTexts ==
    /\ ~effectPending
    /\ vectors' = SampleVectors
    /\ selectedVector' = NULL
    /\ effectPending' = TRUE
    /\ UNCHANGED <<exInputText, distanceMetric, similarities, pointsRef, clock>>
    /\ UNCHANGED <<distVars, vecVars, gridVars>>

\* line 373: prev.filter((v) => v.id !== id)
WithoutId(store, id) == SelectSeq(store, LAMBDA v : v.id # id)

\* the removal without lines 374-376
removeVectorKeepSelection(id) ==
    /\ ~effectPending
    /\ vectors' = WithoutId(vectors, id)
    /\ effectPending' = TRUE
    /\ UNCHANGED <<selectedVector, exInputText, distanceMetric, similarities,
                   pointsRef, clock>>
    /\ UNCHANGED <<distVars, vecVars, gridVars>>

\* the removal with setSelectedVector(null) outside the test of line 374
removeVectorAlwaysDeselect(id) ==
    /\ ~effectPending
    /\ vectors' = WithoutId(vectors, id)
    /\ selectedVector' = NULL
    /\ effectPending' = TRUE
    /\ UNCHANGED <<exInputText, distanceMetric, similarities, pointsRef, clock>>
    /\ UNCHANGED <<distVars, vecVars, gridVars>>

\* lines 372-377
removeVector(id) ==
    /\ ~effectPending
    /\ vectors' = WithoutId(vectors, id)
    /\ selectedVector' = IF selectedVector = id THEN NULL ELSE selectedVector
    /\ effectPending' = TRUE
    /\ UNCHANGED <<exInputText, distanceMetric, similarities, pointsRef, clock>>
    /\ UNCHANGED <<distVars, vecVars, gridVars>>

\* the reset without line 381
resetVisualizationKeepSelection ==
    /\ ~effectPending
    /\ vectors' = <<>>
    /\ similarities' = <<>>
    /\ effectPending' = TRUE
    /\ UNCHANGED <<selectedVector, exInputText, distanceMetric, pointsRef, clock>>
    /\ UNCHANGED <<distVars, vecVars, gridVars>>

\* lines 379-383
resetVisualization ==
    /\ ~effectPending
    /\ vectors' = <<>>
    /\ selectedVector' = NULL
    /\ similarities' = <<>>
    /\ effectPending' = TRUE
    /\ UNCHANGED <<exInputText, distanceMetric, pointsRef, clock>>
    /\ UNCHANGED <<distVars, vecVars, gridVars>>

\* line 537: a click on a record of the list
SelectFromList(id) ==
    /\ ~effectPending
    /\ selectedVector' = id
    /\ effectPending' = (effectPending \/ selectedVector # id)
    /\ UNCHANGED <<vectors, exInputText, distanceMetric, similarities,
                   pointsRef, clock>>
    /\ UNCHANGED <<distVars, vecVars, gridVars>>

\* lines 169-192: a click on the canvas hits the point of `hit`, or nothing (NULL)
onCanvasClick(hit) ==
    /\ ~effectPending
    /\ selectedVector' = hit
    /\ effectPending' = (effectPending \/ selectedVector # hit)
    /\ UNCHANGED <<vectors, exInputText, distanceMetric, similarities,
                   pointsRef, clock>>
    /\ UNCHANGED <<distVars, vecVars, gridVars>>

\* line 493: onValueChange of the metric selector
setDistanceMetric(value) ==
    /\ ~effectPending
    /\ distanceMetric' = value
    /\ effectPending' = (effectPending \/ distanceMetric # value)
    /\ UNCHANGED <<vectors, selectedVector, exInputText, similarities,
                   pointsRef, clock>>
    /\ UNCHANGED <<distVars, vecVars, gridVars>>

\* the comparator (a, b) => a.score - b.score
compareAscending(a, b) == a.score - b.score

\* line 321: the comparator (a, b) => b.score - a.score
compare(a, b) == b.score - a.score

\* Array.prototype.sort is stable: an element goes before the first one the
\* comparator puts after it, and so after every one it compares equal to.
InsertSorted(sorted, x) ==
    LET later == {k \in 1..Len(sorted) : compare(sorted[k], x) > 0}
        at == IF later = {} THEN Len(sorted) + 1
              ELSE CHOOSE k \in later : \A n \in later : k <= n
    IN  [k \in 1..(Len(sorted) + 1) |->
            IF k < at THEN sorted[k] ELSE IF k = at THEN x ELSE sorted[k - 1]]

RECURSIVE SortFrom(_, _, _)
SortFrom(sorted, list, k) ==
    IF k > Len(list) THEN sorted
    ELSE SortFrom(InsertSorted(sorted, list[k]), list, k + 1)

\* line 321: newSimilarities.sort(...)
sort(list) == SortFrom(<<>>, list, 1)

\* the forEach without the test of line 309
CandidatesAll(store, selected) == store

\* lines 308-309: the records the forEach scores
Candidates(store, selected) == SelectSeq(store, LAMBDA v : v.id # selected)

\* The vectors that can be in the store.
KnownVectors ==
    {textToVector3D(t) : t \in {SAMPLE_TEXTS[k] : k \in 1..Len(SAMPLE_TEXTS)}
                                \cup {t \in ExTexts : ~IsBlank(t)}}

\* calculateDistance on the vectors that can be in the store, computed once
Distances ==
    [vec1 \in KnownVectors, vec2 \in KnownVectors, metric \in Metrics |->
        calculateDistance(vec1, vec2, metric)]

\* lines 310-317
Similarity(selectedVec, other, metric) ==
    [id1 |-> selectedVec.id, id2 |-> other.id,
     text1 |-> selectedVec.text, text2 |-> other.text,
     score |-> Distances[selectedVec.vector, other.vector, metric]]

\* lines 303-319: newSimilarities before the sort
newSimilarities(store, selected, metric) ==
    LET selectedVec == Find(store, selected)
        others == Candidates(store, selected)
    IN  [k \in 1..Len(others) |-> Similarity(selectedVec, others[k], metric)]

\* the effect without distanceMetric among its dependencies: it keeps the
\* metric of the first render
calculateSimilaritiesStaleMetric(store, selected, metric, old) ==
    IF selected = NULL THEN <<>>
    ELSE IF selected \notin Ids(store) THEN old
    ELSE sort(newSimilarities(store, selected, "cosine"))

\* lines 297-323: the similarity effect
calculateSimilarities(store, selected, metric, old) ==
    IF selected = NULL THEN <<>>
    ELSE IF selected \notin Ids(store) THEN old
    ELSE sort(newSimilarities(store, selected, metric))

\* The effects of a render: lines 245-265 rebuild pointsRef, lines 297-323
\* recompute the similarities.
RunEffects ==
    /\ effectPending
    /\ pointsRef' = Ids(vectors)
    /\ similarities' = calculateSimilarities(vectors, selectedVector,
                                             distanceMetric, similarities)
    /\ effectPending' = FALSE
    /\ UNCHANGED <<vectors, selectedVector, exInputText, distanceMetric, clock>>
    /\ UNCHANGED <<distVars, vecVars, gridVars>>

\* The ids removeVector is called with: those addVector can have made, and
\* the first sample's.
RemoveTargets == {ToString(c) : c \in 0..MaxClock} \cup {SampleId(0)}

ExNext ==
    \/ \E t \in ExTexts : ExSetInputText(t)
    \/ ClockTick
    \/ addVector
    \/ addSampleTexts
    \/ \E id \in RemoveTargets : removeVector(id)
    \/ resetVisualization
    \/ \E id \in Ids(vectors) : SelectFromList(id)
    \/ \E hit \in pointsRef \cup {NULL} : onCanvasClick(hit)
    \/ \E value \in Metrics : setDistanceMetric(value)
    \/ RunEffects

(***************************************************************************)
(* The explorer's textToVector, call by call: a call, the record made of   *)
(* what it returned appended to the store as addVector does, and the same  *)
(* call again.                                                             *)
(***************************************************************************)
\* "", " ", "a z", "a  za "
ExCallTexts == {<<>>, <<32>>, <<97, 32, 122>>, <<97, 32, 32, 122, 97, 32>>}

ExCallInit ==
    /\ exCallText \in ExCallTexts
    /\ exCallPc = "call"
    /\ exCallResult = <<>>
    /\ exCallFirst = <<>>

\* lines 328 and 355: const vector = textToVector(text)
ExCall ==
    /\ exCallPc = "call"
    /\ exCallResult' = textToVector3D(exCallText)
    /\ exCallPc' = "done"
    /\ UNCHANGED <<exCallText, exCallFirst>>
    /\ UNCHANGED <<callText, callDims, pc, i, j, hash, result, firstResult>>
    /\ UNCHANGED <<distVars, gridVars, exVars>>

\* lines 330-345 with the vector returned, then the same text submitted again
ExCallAgain ==
    /\ exCallPc = "done"
    /\ exCallFirst = <<>>
    /\ exCallFirst' = <<exCallResult>>
    /\ vectors' = Append(vectors,
                         [id |-> ToString(clock), text |-> exCallText,
                          vector |-> exCallResult,
                          position |-> Position(exCallResult),
                          color |-> colors[(Len(vectors) % Len(colors)) + 1]])
    /\ exCallPc' = "call"
    /\ UNCHANGED <<exCallText, exCallResult>>
    /\ UNCHANGED <<callText, callDims, pc, i, j, hash, result, firstResult>>
    /\ UNCHANGED <<selectedVector, exInputText, distanceMetric, similarities,
                   pointsRef, effectPending, clock>>
    /\ UNCHANGED <<distVars, gridVars>>

ExCallNext ==
    \/ ExCall
    \/ ExCallAgain

(***************************************************************************)
(* calculateDistance, call by call: the metric selector delivers a value,  *)
(* line 493 stores it, and the function is called with the stored metric   *)
(* on two vectors of equal length.                                         *)
(***************************************************************************)
MaxVecLen == 2       \* longest of the short argument vectors

\* -1, 0, 1
ShortComponents == {-1000, 0, 1000}

ShortVectors == UNION {[1..n -> ShortComponents] : n \in 1..MaxVecLen}

\* a value no SelectItem of lines 499-510 has
UnknownMetric == "chebyshev"

DistIdle ==
    /\ distVec1 = <<>>
    /\ distVec2 = <<>>
    /\ distValue = "cosine"
    /\ distPc = "idle"
    /\ distScore = 0

DistInit ==
    /\ distVec1 \in KnownVectors \cup ShortVectors
    /\ distVec2 \in KnownVectors \cup ShortVectors
    /\ Len(distVec1) = Len(distVec2)
    /\ distValue \in Metrics \cup {UnknownMetric}
    /\ distPc = "select"
    /\ distScore = 0

\* line 493: onValueChange={(value: DistanceMetric) => setDistanceMetric(value)};
\* the type annotation checks nothing when the code runs
DistSelect ==
    /\ distPc = "select"
    /\ distanceMetric' = distValue
    /\ distPc' = "call"
    /\ UNCHANGED <<distVec1, distVec2, distValue, distScore>>
    /\ UNCHANGED <<vectors, selectedVector, exInputText, similarities,
                   pointsRef, effectPending, clock>>
    /\ UNCHANGED <<vecVars, gridVars>>

\* line 310: calculateDistance(selectedVec.vector, vector.vector, distanceMetric)
DistCall ==
    /\ distPc = "call"
    /\ distScore' = calculateDistance(distVec1, distVec2, distanceMetric)
    /\ distPc' = "done"
    /\ UNCHANGED <<distVec1, distVec2, distValue>>
    /\ UNCHANGED <<vecVars, gridVars, exVars>>

DistNext ==
    \/ DistSelect
    \/ DistCall

InitVec ==
    /\ \/ VecInit /\ ExCallIdle
       \/ HashIdle /\ ExCallInit
    /\ DistIdle
    /\ GridInit
    /\ ExInit

InitDistance == DistInit /\ VecIdle /\ GridInit /\ ExInit

InitGrid == GridInit /\ VecIdle /\ DistIdle /\ ExInit

InitExplorer == ExInit /\ VecIdle /\ DistIdle /\ GridInit

\* the vectorizers, call by call
SpecVec == InitVec /\ [][VecNext \/ ExCallNext]_vars

\* calculateDistance, one call
SpecDistance == InitDistance /\ [][DistNext]_vars

\* the grid demo
SpecGrid == InitGrid /\ [][GridNext]_vars

\* the 3D explorer
SpecExplorer == InitExplorer /\ [][ExNext]_vars

\* the grid demo, every timer that is due firing and time passing: the
\* browser runs a due timer's callback once the handler in progress is over
SpecGridFair ==
    /\ InitGrid
    /\ [][GridNext]_vars
    /\ WF_vars(IntervalFire)
    /\ WF_vars(\E k \in 1..Len(timeouts) : TimeoutFire(k))
    /\ WF_vars(Tick)

(***************************************************************************)
(* The vectorizer's properties, under SpecVec.                             *)
(***************************************************************************)
\* The step agrees with the function the grid demo's timeout calls.
VecStepsComputeTextToVector ==
    pc = "done" => result = textToVector(callText, callDims)

\* C5: every component of the per-dimension hash vectorizer's output lies in
\* [-1, 1], that is in -1000..1000 thousandths.
C5_ComponentsInRange ==
    \A k \in 1..Len(result) : result[k] \in -1000..1000

\* C9: textToVector returns exactly dims components for a text with a
\* non-whitespace character, and the empty sequence for an empty or
\* all-whitespace text.
C9_LengthContract ==
    LET expected == IF IsBlank(callText) THEN 0 ELSE callDims
    IN  /\ pc = "done" => Len(result) = expected
        /\ Len(textToVector(callText, callDims)) = expected

\* a finished call on a text that holds whitespace and is not blank, for
\* more than one dimension
C9_Witness ==
    /\ pc = "done"
    /\ ~IsBlank(callText)
    /\ \E k \in 1..Len(callText) : IsWhitespace(callText[k])
    /\ callDims > 1
    /\ Len(result) = callDims

\* hash * 31 + char as a wide number
Times31Plus(h, char) == WAdd(WNorm(h[1] * 31, h[2] * 31), Wide(char))

\* a and b differ by a multiple of 2^32
SameMod32(a, b) == a[2] = b[2] /\ (a[1] - b[1]) % 65536 = 0

\* C10: after each character step the hash is hash * 31 + charCode reduced
\* to the signed 32-bit range by two's-complement wraparound.
C10_HashIsWrappedPolynomial ==
    [][(pc = "char" /\ j' = j + 1) =>
          /\ InInt32(hash')
          /\ SameMod32(hash', Times31Plus(hash, SeedString(callText, i)[j + 1]))]_vars

\* the hash is negative after a step, and the sum of line 30 for the next
\* character is outside the signed 32-bit range, so that line 31 changes it
C10_Witness ==
    /\ pc = "char"
    /\ j > 0
    /\ j < Len(SeedString(callText, i))
    /\ hash[1] < 0
    /\ ~InInt32(WAdd(WSub(ShiftLeft5(hash), hash),
                      Wide(SeedString(callText, i)[j + 1])))

ExCallRepeated ==
    /\ exCallPc = "done"
    /\ exCallFirst # <<>>
    /\ vectors # <<>>
    /\ \E k \in 1..VECTOR_LENGTH : exCallResult[k] # 0

(***************************************************************************)
(* calculateDistance's properties, under SpecDistance.                     *)
(***************************************************************************)
\* C11: for each of the four metric kinds and two vectors of equal length,
\* calculateDistance returns a score >= 0.
C11_ScoreNonNegative ==
    (distPc = "done" /\ distValue \in Metrics) => distScore >= 0

\* a call under the metric dot on two vectors of negative dot product has
\* returned 0
C11_Witness ==
    /\ distPc = "done"
    /\ distValue = "dot"
    /\ DotProduct(distVec1, distVec2) < 0
    /\ distScore = 0

C1_ResetDiscardsTimers ==
    showAnimation = FALSE => (vector = <<>> /\ progressWidth = 0)

\* C18: a timeout callback that makes the displayed vector non-empty runs
\* with progressWidth at 100.
C18_VectorShownAtFullProgress ==
    [][((\E k \in 1..Len(timeouts) : TimeoutFire(k)) /\ vector' # <<>>) =>
          progressWidth = 100]_vars

\* C20: progressWidth is a multiple of 10 within 0..100, and if from some
\* point on no handleConvert and no reset is clicked, then from some point
\* on no progress interval is running (an interval stops running only in
\* the branch that finds progressWidth >= 100 and calls clearInterval).
C20_IntervalsEventuallyCleared ==
    /\ [](progressWidth \in {10 * n : n \in 0..10})
    /\ (<>[][~(handleConvert \/ reset)]_vars) => <>[](intervals = EmptyBag)

\* two intervals of overlapping conversions run, and a reset has put the
\* progress back below 100
C20_Witness ==
    /\ BagCardinality(intervals) = 2
    /\ showAnimation = FALSE
    /\ progressWidth \in 10..90

(***************************************************************************)
(* The explorer's properties, under SpecExplorer.                          *)
(***************************************************************************)
\* The store holds vectors of the table of distances only.
StoreVectorsKnown ==
    \A k \in 1..Len(vectors) :
        /\ vectors[k].vector \in KnownVectors
        /\ vectors[k].vector = textToVector3D(vectors[k].text)

SameRecord(entry, record) == entry.id2 = record.id /\ entry.text2 = record.text

\* C2: once the similarity effect has run, the list is empty when nothing is
\* selected, and otherwise holds exactly one entry for every stored record
\* whose id differs from the selected id, scored against the selected
\* record under the current metric.
C2_ListIsCurrentRanking ==
    ~effectPending =>
        IF selectedVector = NULL THEN similarities = <<>>
        ELSE LET others == {k \in 1..Len(vectors) : vectors[k].id # selectedVector}
                 entries == 1..Len(similarities)
             IN  /\ Len(similarities) = Cardinality(others)
                 /\ \E s \in 1..Len(vectors) :
                       /\ vectors[s].id = selectedVector
                       /\ \A n \in entries :
                             /\ similarities[n].id1 = selectedVector
                             /\ similarities[n].text1 = vectors[s].text
                             /\ \E k \in others :
                                   /\ SameRecord(similarities[n], vectors[k])
                                   /\ similarities[n].score =
                                         Distances[vectors[s].vector, vectors[k].vector,
                                                   distanceMetric]
                 /\ \A k \in others :
                       Cardinality({n \in entries : SameRecord(similarities[n], vectors[k])})
                         = Cardinality({m \in others :
                                           /\ vectors[m].id = vectors[k].id
                                           /\ vectors[m].text = vectors[k].text})

\* the effect has run after a change of metric, with a record selected in a
\* store that holds samples and an added record
C2_Witness ==
    /\ ~effectPending
    /\ selectedVector # NULL
    /\ distanceMetric = "manhattan"
    /\ Len(similarities) >= 2
    /\ \E k \in 1..Len(vectors) : vectors[k].id \notin SampleIds
    /\ \E k \in 1..Len(vectors) : vectors[k].id \in SampleIds

\* C3 as stated: in every reachable state no entry of the list has id2 equal
\* to the selected id.
C3_NeverHoldsSubject ==
    \A n \in 1..Len(similarities) : similarities[n].id2 # selectedVector

\* C3 as amended: in every reachable state in which the similarity effect
\* has run since the last change of selection, metric or store, no entry of
\* the list has id2 equal to the selected id.
C3_SettledNeverHoldsSubject ==
    ~effectPending =>
        \A n \in 1..Len(similarities) : similarities[n].id2 # selectedVector

\* the selected id is the id of two stored records, and the list is not empty
C3_Witness ==
    /\ ~effectPending
    /\ selectedVector # NULL
    /\ similarities # <<>>
    /\ Cardinality({k \in 1..Len(vectors) : vectors[k].id = selectedVector}) = 2

\* the place of candidate c in the ranking: after the candidates of a higher
\* score, and after the earlier candidates of the same score
RankOf(score, c) ==
    1 + Cardinality({d \in DOMAIN score :
                        score[d] > score[c] \/ (score[d] = score[c] /\ d < c)})

\* C4: the list is sorted non-increasing by score, and two candidates of
\* equal score keep the relative order they have in the store.
C4_SortedAndStable ==
    /\ \A n, m \in 1..Len(similarities) :
          n < m => similarities[n].score >= similarities[m].score
    /\ (~effectPending /\ selectedVector \in Ids(vectors)) =>
          LET subject == CHOOSE k \in 1..Len(vectors) : vectors[k].id = selectedVector
              cand == SelectSeq(vectors, LAMBDA v : v.id # selectedVector)
              score == [c \in 1..Len(cand) |->
                           Distances[vectors[subject].vector, cand[c].vector,
                                     distanceMetric]]
          IN  /\ Len(similarities) = Len(cand)
              /\ \A c \in 1..Len(cand) :
                    /\ SameRecord(similarities[RankOf(score, c)], cand[c])
                    /\ similarities[RankOf(score, c)].score = score[c]

\* a ranking with two different records of equal score and two of different
\* scores
C4_Witness ==
    /\ ~effectPending
    /\ \E n, m \in 1..Len(similarities) :
          /\ n < m
          /\ similarities[n].score = similarities[m].score
          /\ similarities[n].id2 # similarities[m].id2
    /\ \E n, m \in 1..Len(similarities) :
          similarities[n].score > similarities[m].score

\* C6: the ids of the stored records are pairwise distinct.
C6_IdsPairwiseDistinct ==
    \A a, b \in 1..Len(vectors) : a # b => vectors[a].id # vectors[b].id

\* C7: removeVector of the selected record, with a non-empty list, makes the
\* selection null and leaves the effect to run; with the selection null the
\* effect's run leaves the list empty, and nothing selects before it.
C7_RemovingSelectedClearsList ==
    [][ /\ (/\ selectedVector # NULL
            /\ similarities # <<>>
            /\ removeVector(selectedVector))
           => (selectedVector' = NULL /\ effectPending')
        /\ (effectPending /\ selectedVector = NULL)
           => /\ selectedVector' = NULL
              /\ ~effectPending' => similarities' = <<>> ]_vars

\* the selected record has just been removed: nothing is selected, the list
\* still ranks against a subject the store no longer holds, and records
\* added by addVector remain (a load of the samples leaves none)
C7_Witness ==
    /\ effectPending
    /\ selectedVector = NULL
    /\ similarities # <<>>
    /\ similarities[1].id1 \notin Ids(vectors)
    /\ \E k \in 1..Len(vectors) : vectors[k].id \notin SampleIds

\* the store after a load of the samples
LoadedStore ==
    [k \in 1..8 |->
        LET vec == textToVector3D(SAMPLE_TEXTS[k])
        IN  [id |-> "sample-" \o ToString(k - 1),
             text |-> SAMPLE_TEXTS[k],
             vector |-> vec,
             position |-> <<SumOf(vec, 1, 42) * 8, SumOf(vec, 44, 85) * 8,
                            SumOf(vec, 87, 128) * 8>>,
             color |-> colors[k]]]

\* C8: whatever the store and the selection were, after addSampleTexts the
\* store holds exactly the 8 sample records, in sample order, with the ids
\* sample-0 .. sample-7, and nothing is selected; the store after a load
\* is the same every time.
C8_LoadReplacesStore ==
    [][addSampleTexts =>
          /\ Len(vectors') = 8
          /\ \A k \in 1..8 : vectors'[k].id = "sample-" \o ToString(k - 1)
          /\ vectors' = LoadedStore
          /\ selectedVector' = NULL]_vars

\* the samples have just been loaded over a store of nine records, one of
\* them selected: the stale list has eight entries, the store the 8 samples
C8_Witness ==
    /\ effectPending
    /\ selectedVector = NULL
    /\ Len(similarities) = 8
    /\ Len(vectors) = 8
    /\ \A k \in 1..8 : vectors[k].id = "sample-" \o ToString(k - 1)

\* Every score of the list is >= 0.
ListScoresNonNegative ==
    \A n \in 1..Len(similarities) : similarities[n].score >= 0

\* C12: addVector with an input text that is empty or all whitespace changes
\* neither the store, the selection, the similarity list nor the input text.
C12_BlankAddIsNoOp ==
    [][(addVector /\ IsBlank(exInputText)) =>
          UNCHANGED <<vectors, selectedVector, similarities, exInputText>>]_vars

\* addVector can be called on an all-whitespace, non-empty input text with a
\* record selected and a ranking shown
C12_Witness ==
    /\ ~effectPending
    /\ exInputText = <<32>>
    /\ selectedVector # NULL
    /\ similarities # <<>>
    /\ Cardinality({k \in 1..Len(vectors) : vectors[k].id \notin SampleIds}) < MaxAdded

\* C13: addVector with a non-blank input text appends exactly one record at
\* the end of the store, leaves the records before it as they were, and
\* gives the new record the text and the palette colour at index (store size
\* before the add) modulo 8.
C13_AddAppendsOne ==
    [][(addVector /\ ~IsBlank(exInputText)) =>
          LET size == Len(vectors)
          IN  /\ Len(vectors') = size + 1
              /\ \A k \in 1..size : vectors'[k] = vectors[k]
              /\ vectors'[size + 1].text = exInputText
              /\ vectors'[size + 1].color = colors[(size % 8) + 1]]_vars

\* a record has just been added to a store of the 8 samples: it is the ninth
\* and has the first colour of the palette again
C13_Witness ==
    /\ effectPending
    /\ Len(vectors) = 9
    /\ \A k \in 1..8 : vectors[k].id \in SampleIds
    /\ vectors[9].id \notin SampleIds
    /\ vectors[9].color = colors[1]
    /\ exInputText = <<>>

\* C14: removeVector(id) with an id no stored record has leaves the store
\* and the selection as they were; with an id that is present it removes
\* the records of that id and leaves the others, in their order.
C14_RemoveFrame ==
    [][\A id \in RemoveTargets :
          removeVector(id) =>
             LET gone == {k \in 1..Len(vectors) : vectors[k].id = id}
                 kept == (1..Len(vectors)) \ gone
             IN  /\ Len(vectors') = Cardinality(kept)
                 /\ \A k \in kept :
                       vectors'[k - Cardinality({n \in gone : n < k})] = vectors[k]
                 /\ gone = {} => (vectors' = vectors /\ selectedVector' = selectedVector)]_vars

\* removeVector has been called with an id the store does not hold: the
\* effect is to run, while a record is selected and the list is still its
\* ranking under the current metric
C14_Witness ==
    /\ effectPending
    /\ selectedVector \in Ids(vectors)
    /\ distanceMetric = "euclidean"
    /\ similarities # <<>>
    /\ similarities = sort(newSimilarities(vectors, selectedVector, distanceMetric))
    /\ \E id \in RemoveTargets : id \notin Ids(vectors)

\* the store is empty, nothing is selected and the list is empty
Cleared ==
    /\ vectors = <<>>
    /\ selectedVector = NULL
    /\ similarities = <<>>

\* C15: resetVisualization leaves the store empty, the selection null and
\* the list empty, and they stay so over every step that is neither an
\* addVector with a non-blank text nor an addSampleTexts.
C15_ResetClears ==
    [][ /\ resetVisualization => Cleared'
        /\ (/\ Cleared
            /\ ~(addVector /\ ~IsBlank(exInputText))
            /\ ~addSampleTexts)
           => Cleared' ]_vars

\* the reset has just run on a store of records of two ids or more: the
\* points of the scene are still those of the records
C15_Witness ==
    /\ effectPending
    /\ Cleared
    /\ Cardinality(pointsRef) >= 2

\* C19: the selection is null or the id of a stored record.
C19_SelectionIsStored ==
    selectedVector = NULL \/ selectedVector \in Ids(vectors)

\* a record other than the selected one has just been removed: the selection
\* is kept and the list still has an entry for the record removed
C19_Witness ==
    /\ effectPending
    /\ selectedVector \in Ids(vectors)
    /\ \E n \in 1..Len(similarities) : similarities[n].id2 \notin Ids(vectors)

====
